---- MODULE Spec2Model ----
(***************************************************************************)
(* One run of kde_heatmap_2025.py, the Streamlit script that draws a       *)
(* kernel-density heatmap of one pitcher's pitch locations.  The script is *)
(* re-executed top to bottom on every interaction; a behaviour of this     *)
(* module is one such execution.                                           *)
(*                                                                         *)
(* Floating-point columns are modelled in fixed point (hundredths) with    *)
(* the IEEE special values the polars expressions can produce kept apart:  *)
(* null (missing), NaN, +-infinity.                                        *)
(***************************************************************************)
EXTENDS Integers, Sequences, FiniteSets, TLC

VARIABLES
    pc,                  \* position of the script
    players_df,          \* line 18: roster rows [name, player_id]
    player_names,        \* lines 21-22: sorted roster names
    pitcher_name_input,  \* line 25
    pitch_type_input,    \* line 30
    batter_hand_input,   \* line 31
    start_date,          \* line 32: a calendar date [y, m, d]
    end_date,            \* line 33
    player_id,           \* line 41
    df,                  \* lines 44-76: the pitch rows
    summary,             \* lines 79-85
    pdf,                 \* line 102: the rows handed to the density plot
    calls,               \* scraper operations called so far, in order
    ui,                  \* Streamlit messages and renders issued so far
    ran,                 \* pipeline steps executed so far
    fig,                 \* the matplotlib axes: what has been drawn on it
    headshot,            \* player_headshot's locals: pitcher_id, response
    log                  \* lines printed to stdout

vars == <<pc, players_df, player_names, pitcher_name_input, pitch_type_input,
          batter_hand_input, start_date, end_date, player_id, df, summary,
          pdf, calls, ui, ran, fig, headshot, log>>

----------------------------------------------------------------------------
(* Bounds of the model *)

\* longest roster returned by get_players
MaxRoster == 2
\* longest row-set returned by get_data_df
MaxRows == 2

----------------------------------------------------------------------------
(* Values *)

\* a polars null / a Python None in a text column
NULL == "<null>"
\* selectbox returns None when it has no options; text is a sequence of
\* character codes and no text holds the code 0
NONE == <<0>>
\* no player id resolved yet
NoId == 0

\* fixed-point unit: one foot (or ft/s, degree, ...) is Scale units
Scale == 10 * 10

Null == [k |-> "null", v |-> 0]
NaN == [k |-> "nan", v |-> 0]
PInf == [k |-> "inf", v |-> 1]
Num(n) == [k |-> "num", v |-> n]
\* n whole units
Whole(n) == Num(n * Scale)

Abs(n) == IF n < 0 THEN -n ELSE n
Sgn(n) == IF n < 0 THEN -1 ELSE IF n > 0 THEN 1 ELSE 0
\* integer division rounding to nearest, halves away from zero
RDiv(a, b) == Sgn(a) * Sgn(b) * ((2 * Abs(a) + Abs(b)) \div (2 * Abs(b)))

RECURSIVE SqrtBetween(_, _, _)
SqrtBetween(lo, hi, x) ==
    IF lo >= hi THEN lo
    ELSE LET mid == (lo + hi + 1) \div 2
         IN  IF mid * mid <= x THEN SqrtBetween(mid, hi, x)
             ELSE SqrtBetween(lo, mid - 1, x)
\* floor of the square root of x >= 0
ISqrt(x) == SqrtBetween(0, 40000, x)

(* IEEE-754 arithmetic on the tagged values; a null operand gives null *)
FNeg(a) ==
    CASE a.k = "num" -> Num(-a.v)
      [] a.k = "inf" -> [k |-> "inf", v |-> -a.v]
      [] OTHER -> a

FAdd(a, b) ==
    CASE a.k = "null" \/ b.k = "null" -> Null
      [] a.k = "nan" \/ b.k = "nan" -> NaN
      [] a.k = "inf" /\ b.k = "inf" -> IF a.v = b.v THEN a ELSE NaN
      [] a.k = "inf" -> a
      [] b.k = "inf" -> b
      [] OTHER -> Num(a.v + b.v)

FSub(a, b) == FAdd(a, FNeg(b))

FMul(a, b) ==
    CASE a.k = "null" \/ b.k = "null" -> Null
      [] a.k = "nan" \/ b.k = "nan" -> NaN
      [] a.k = "inf" \/ b.k = "inf" ->
            IF Sgn(a.v) * Sgn(b.v) = 0 THEN NaN
            ELSE [k |-> "inf", v |-> Sgn(a.v) * Sgn(b.v)]
      [] OTHER -> Num(RDiv(a.v * b.v, Scale))

\* a / b; zs is the sign of b when b is a zero (+0.0 or -0.0)
FDiv(a, b, zs) ==
    CASE a.k = "null" \/ b.k = "null" -> Null
      [] a.k = "nan" \/ b.k = "nan" -> NaN
      [] a.k = "inf" /\ b.k = "inf" -> NaN
      [] a.k = "inf" ->
            [k |-> "inf", v |-> a.v * (IF b.v = 0 THEN zs ELSE Sgn(b.v))]
      [] b.k = "inf" -> Num(0)
      [] b.v = 0 ->
            IF a.v = 0 THEN NaN ELSE [k |-> "inf", v |-> Sgn(a.v) * zs]
      [] OTHER -> Num(RDiv(a.v * Scale, b.v))

\* the square root of a negative number is NaN
FSqrt(a) ==
    CASE a.k = "null" -> Null
      [] a.k = "nan" -> NaN
      [] a.k = "inf" -> IF a.v > 0 THEN PInf ELSE NaN
      [] a.v < 0 -> NaN
      [] OTHER -> Num(ISqrt(a.v * Scale))

\* pi / 2 and 180 / pi in fixed point
HalfPi == Num(157)
DegPerRad == Num(5730)

\* arctan: x / (1 + 0.28 x^2) on [-1, 1], +-pi/2 - x / (x^2 + 0.28) outside
FArctan(a) ==
    CASE a.k = "null" -> Null
      [] a.k = "nan" -> NaN
      [] a.k = "inf" -> Num(a.v * HalfPi.v)
      [] Abs(a.v) >= Scale * Scale -> Num(Sgn(a.v) * HalfPi.v)
      [] Abs(a.v) <= Scale ->
            Num(RDiv(a.v * Scale * Scale,
                     Scale * Scale + RDiv(28 * a.v * a.v, Scale)))
      [] OTHER ->
            Num(Sgn(a.v) * HalfPi.v
                - RDiv(a.v * Scale * Scale, a.v * a.v + 28 * Scale))

----------------------------------------------------------------------------
(* Dates.  game_date is text in ISO form; str(date) formats a calendar     *)
(* date the same way.  Text is a sequence of character codes, compared     *)
(* lexicographically as polars compares strings.                           *)

Dash == 45
Digit(n) == 48 + n

\* str(datetime.date): zero-padded YYYY-MM-DD
StrDate(d) ==
    << Digit(d.y \div 1000), Digit((d.y \div 100) % 10),
       Digit((d.y \div 10) % 10), Digit(d.y % 10), Dash,
       Digit(d.m \div 10), Digit(d.m % 10), Dash,
       Digit(d.d \div 10), Digit(d.d % 10) >>

RECURSIVE LexLeq(_, _)
\* s <= t in lexicographic order of the character codes
LexLeq(s, t) ==
    IF s = <<>> THEN TRUE
    ELSE IF t = <<>> THEN FALSE
    ELSE IF Head(s) # Head(t) THEN Head(s) < Head(t)
    ELSE LexLeq(Tail(s), Tail(t))

\* the bug of an exclusive upper end: game_date < str(end_date)
InDateRangeExclusiveEnd(r, sd, ed) ==
    /\ LexLeq(StrDate(sd), r.game_date)
    /\ LexLeq(r.game_date, StrDate(ed))
    /\ r.game_date # StrDate(ed)

\* line 49: (game_date >= str(start_date)) & (game_date <= str(end_date))
InDateRange(r, sd, ed) ==
    LexLeq(StrDate(sd), r.game_date) /\ LexLeq(r.game_date, StrDate(ed))

----------------------------------------------------------------------------
(* Row filtering, lines 46-55 *)

\* the bug of slicing the first row off the filtered rows
FilterNameSkipsFirst(d, name) ==
    LET kept == SelectSeq(d, LAMBDA r : r.pitcher_name = name)
    IN  IF kept = <<>> THEN kept ELSE Tail(kept)

\* line 47
FilterName(d, name) == SelectSeq(d, LAMBDA r : r.pitcher_name = name)
\* line 48
FilterType(d, type) == SelectSeq(d, LAMBDA r : r.pitch_type = type)
\* line 49
FilterDate(d, sd, ed) == SelectSeq(d, LAMBDA r : InDateRange(r, sd, ed))
\* the bug of keeping only rows with a known handedness under "Both"
FilterHandDropsMissing(d, hand) ==
    IF hand = "Left" THEN SelectSeq(d, LAMBDA r : r.batter_hand = "L")
    ELSE IF hand = "Right" THEN SelectSeq(d, LAMBDA r : r.batter_hand = "R")
    ELSE SelectSeq(d, LAMBDA r : r.batter_hand \in {"L", "R"})

\* lines 52-55
FilterHand(d, hand) ==
    IF hand = "Left" THEN SelectSeq(d, LAMBDA r : r.batter_hand = "L")
    ELSE IF hand = "Right" THEN SelectSeq(d, LAMBDA r : r.batter_hand = "R")
    ELSE d

\* lines 47-55 in the order the script applies them
FilterAll(d, name, type, sd, ed, hand) ==
    FilterHand(FilterDate(FilterType(FilterName(d, name), type), sd, ed), hand)

----------------------------------------------------------------------------
(* Vertical approach angle, lines 63-76 *)

\* line 64
y0 == 50
\* line 65: 17 / 12
yf == Num(RDiv(17 * Scale, 12))

\* line 67: -sqrt(vy0 ** 2 - 2 * ay * (y0 - yf))
Radicand(r) ==
    FSub(FMul(r.vy0, r.vy0),
         FMul(FMul(Whole(2), r.ay), FSub(Whole(y0), yf)))
VyF(r) == FNeg(FSqrt(Radicand(r)))
\* line 69: (vy_f - vy0) / ay
TimeToPlate(r) == FDiv(FSub(VyF(r), r.vy0), r.ay, 1)
\* line 71: vz0 + az * t
VzF(r) == FAdd(r.vz0, FMul(r.az, TimeToPlate(r)))
\* line 73: arctan(-vz_f / vy_f); vy_f is -sqrt(..), so a zero vy_f is -0.0
VaaRad(r) == FArctan(FDiv(FNeg(VzF(r)), VyF(r), -1))
\* line 75: vaa_rad * (180 / pi)
VaaDeg(r) == FMul(VaaRad(r), DegPerRad)

\* lines 66-76: with_columns adds the derived columns to every row
WithVaa(d) ==
    [i \in 1..Len(d) |->
        [pitcher_name |-> d[i].pitcher_name, pitcher_id |-> d[i].pitcher_id,
         pitch_type |-> d[i].pitch_type, game_date |-> d[i].game_date,
         batter_hand |-> d[i].batter_hand, px |-> d[i].px, pz |-> d[i].pz,
         vy0 |-> d[i].vy0, ay |-> d[i].ay, vz0 |-> d[i].vz0, az |-> d[i].az,
         start_speed |-> d[i].start_speed, ivb |-> d[i].ivb, hb |-> d[i].hb,
         extension |-> d[i].extension,
         vy_f |-> VyF(d[i]), t |-> TimeToPlate(d[i]), vz_f |-> VzF(d[i]),
         vaa_rad |-> VaaRad(d[i]), vaa_deg |-> VaaDeg(d[i])]]

----------------------------------------------------------------------------
(* Summary statistics, lines 78-85 *)

RECURSIVE FSum(_)
\* IEEE sum of a sequence of non-null values
FSum(s) == IF s = <<>> THEN Num(0) ELSE FAdd(Head(s), FSum(Tail(s)))

\* a mean that skips NaN as it skips null (fill_nan(None) before mean)
MeanSkippingNaN(col) ==
    LET vals == SelectSeq(col, LAMBDA x : x.k \notin {"null", "nan"})
        tot == FSum(vals)
    IN  IF vals = <<>> THEN Null
        ELSE IF tot.k = "num" THEN Num(RDiv(tot.v, Len(vals)))
        ELSE tot

\* polars mean: nulls are skipped, every other value (NaN included) counts;
\* the mean of no values is null
PolarsMean(col) ==
    LET vals == SelectSeq(col, LAMBDA x : x.k # "null")
        tot == FSum(vals)
    IN  IF vals = <<>> THEN Null
        ELSE IF tot.k = "num" THEN Num(RDiv(tot.v, Len(vals)))
        ELSE tot

\* round(1): to one decimal place
Round1(a) ==
    IF a.k = "num" THEN Num(RDiv(a.v, Scale \div 10) * (Scale \div 10)) ELSE a

Column(d, c) == [i \in 1..Len(d) |-> d[i][c]]

\* lines 79-85
Summarise(d) ==
    [Velo |-> Round1(PolarsMean(Column(d, "start_speed"))),
     IVB |-> Round1(PolarsMean(Column(d, "ivb"))),
     HB |-> Round1(PolarsMean(Column(d, "hb"))),
     Ext |-> Round1(PolarsMean(Column(d, "extension"))),
     VAA |-> Round1(PolarsMean(Column(d, "vaa_deg")))]

\* the bug of dropping before selecting: drop_nulls / drop_nans over every
\* column, then select(["px", "pz"])
LocationRowsAllColumns(d) ==
    LET kept == SelectSeq(d, LAMBDA r : /\ r.px.k # "null" /\ r.pz.k # "null"
                                        /\ r.vaa_deg.k = "num")
    IN  [i \in 1..Len(kept) |-> [px |-> kept[i].px, pz |-> kept[i].pz]]

\* line 102: select(["px", "pz"]).drop_nulls()
LocationRows(d) ==
    SelectSeq([i \in 1..Len(d) |-> [px |-> d[i].px, pz |-> d[i].pz]],
              LAMBDA r : r.px.k # "null" /\ r.pz.k # "null")

----------------------------------------------------------------------------
(* The script, one action per step *)

\* line 30: the pitch-type options
PitchTypes == {"FF", "SL", "CH", "CU", "SI", "FC"}
\* line 31: the handedness options
Hands == {"Both", "Left", "Right"}

RECURSIVE Insert(_, _)
Insert(x, s) ==
    IF s = <<>> THEN <<x>>
    ELSE IF LexLeq(x, Head(s)) THEN <<x>> \o s
    ELSE <<Head(s)>> \o Insert(x, Tail(s))
RECURSIVE Sorted(_)
\* line 22: sorted(player_names)
Sorted(s) == IF s = <<>> THEN <<>> ELSE Insert(Head(s), Sorted(Tail(s)))

Range(s) == {s[i] : i \in 1..Len(s)}

\* all sequences over S of length at most n
SeqsUpTo(S, n) == UNION {[1..k -> S] : k \in 0..n}

NoFig == [kde |-> <<>>, drawn |-> FALSE, zone |-> FALSE, text |-> FALSE,
          image |-> NoId, limits |-> FALSE, title |-> <<>>, grid |-> FALSE]
NoSummary == [Velo |-> Null, IVB |-> Null, HB |-> Null, Ext |-> Null,
              VAA |-> Null]
NoHeadshot == [pitcher_id |-> NoId, status |-> 0]

Init ==
    /\ pc = "start"
    /\ players_df = <<>>
    /\ player_names = <<>>
    /\ pitcher_name_input = NONE
    /\ pitch_type_input = "FF"
    /\ batter_hand_input = "Both"
    /\ start_date = [y |-> 2025, m |-> 1, d |-> 1]
    /\ end_date = [y |-> 2025, m |-> 12, d |-> 31]
    /\ player_id = NoId
    /\ df = <<>>
    /\ summary = NoSummary
    /\ pdf = <<>>
    /\ calls = <<>>
    /\ ui = <<>>
    /\ ran = {}
    /\ fig = NoFig
    /\ headshot = NoHeadshot
    /\ log = <<>>

\* lines 17-22: get_players answers with some roster
LoadPlayers(rosterRows) ==
    /\ pc = "start"
    /\ \E roster \in SeqsUpTo(rosterRows, MaxRoster) :
          /\ players_df' = roster
          /\ player_names' = Sorted([i \in 1..Len(roster) |-> roster[i].name])
    /\ calls' = Append(calls, [op |-> "get_players", arg |-> NoId])
    /\ pc' = "inputs"
    /\ UNCHANGED <<pitcher_name_input, pitch_type_input, batter_hand_input,
                   start_date, end_date, player_id, df, summary, pdf, ui, ran,
                   fig, headshot, log>>

\* lines 25-33: the widgets return the user's selections; a selectbox
\* without options returns None
SelectInputs(types, hands, starts, ends) ==
    /\ pc = "inputs"
    /\ pitcher_name_input' \in
          (IF player_names = <<>> THEN {NONE} ELSE Range(player_names))
    /\ pitch_type_input' \in types \cap PitchTypes
    /\ batter_hand_input' \in hands \cap Hands
    /\ start_date' \in starts
    /\ end_date' \in ends
    /\ pc' = "match"
    /\ UNCHANGED <<players_df, player_names, player_id, df, summary, pdf,
                   calls, ui, ran, fig, headshot, log>>

\* line 36: players_df.filter(pl.col("name") == pitcher_name_input)
Matching(roster, name) == SelectSeq(roster, LAMBDA r : r.name = name)

\* the bug of a missing st.stop(): the error is shown and the run goes on
MatchPitcherNoStop ==
    /\ pc = "match"
    /\ IF Matching(players_df, pitcher_name_input) = <<>>
       THEN /\ ui' = Append(ui, "error")
            /\ UNCHANGED player_id
       ELSE /\ player_id' = Matching(players_df, pitcher_name_input)[1].player_id
            /\ UNCHANGED ui
    /\ pc' = "games"
    /\ UNCHANGED <<players_df, player_names, pitcher_name_input,
                   pitch_type_input, batter_hand_input, start_date, end_date,
                   df, summary, pdf, calls, ran, fig, headshot, log>>

\* lines 36-41
MatchPitcher ==
    /\ pc = "match"
    /\ IF Matching(players_df, pitcher_name_input) = <<>>
       THEN /\ ui' = Append(ui, "error")
            /\ pc' = "stopped"
            /\ UNCHANGED player_id
       ELSE /\ player_id' = Matching(players_df, pitcher_name_input)[1].player_id
            /\ pc' = "games"
            /\ UNCHANGED ui
    /\ UNCHANGED <<players_df, player_names, pitcher_name_input,
                   pitch_type_input, batter_hand_input, start_date, end_date,
                   df, summary, pdf, calls, ran, fig, headshot, log>>

\* line 42
GetPlayerGamesList ==
    /\ pc = "games"
    /\ calls' = Append(calls, [op |-> "get_player_games_list", arg |-> player_id])
    /\ pc' = "data"
    /\ UNCHANGED <<players_df, player_names, pitcher_name_input,
                   pitch_type_input, batter_hand_input, start_date, end_date,
                   player_id, df, summary, pdf, ui, ran, fig, headshot, log>>

\* line 43
GetData ==
    /\ pc = "data"
    /\ calls' = Append(calls, [op |-> "get_data", arg |-> player_id])
    /\ pc' = "data_df"
    /\ UNCHANGED <<players_df, player_names, pitcher_name_input,
                   pitch_type_input, batter_hand_input, start_date, end_date,
                   player_id, df, summary, pdf, ui, ran, fig, headshot, log>>

\* line 44: get_data_df answers with some pitch rows
GetDataDf(rows) ==
    /\ pc = "data_df"
    /\ df' \in SeqsUpTo(rows, MaxRows)
    /\ calls' = Append(calls, [op |-> "get_data_df", arg |-> player_id])
    /\ pc' = "filter"
    /\ UNCHANGED <<players_df, player_names, pitcher_name_input,
                   pitch_type_input, batter_hand_input, start_date, end_date,
                   player_id, summary, pdf, ui, ran, fig, headshot, log>>

\* the scraper operation the script is about to call
NextCall ==
    CASE pc = "start" -> "get_players"
      [] pc = "games" -> "get_player_games_list"
      [] pc = "data" -> "get_data"
      [] pc = "data_df" -> "get_data_df"

\* the bug of a retry loop around the scraper: the call is made again
ScraperRetries ==
    /\ pc \in {"start", "games", "data", "data_df"}
    /\ Len(calls) < 8
    /\ calls' = Append(calls, [op |-> NextCall, arg |-> player_id])
    /\ UNCHANGED <<pc, players_df, player_names, pitcher_name_input,
                   pitch_type_input, batter_hand_input, start_date, end_date,
                   player_id, df, summary, pdf, ui, ran, fig, headshot, log>>

\* lines 18, 42-44: nothing catches an exception of the scraper; the call
\* has been made and the run ends with the exception
ScraperRaises ==
    /\ pc \in {"start", "games", "data", "data_df"}
    /\ calls' = Append(calls, [op |-> NextCall, arg |-> player_id])
    /\ pc' = "crashed"
    /\ UNCHANGED <<players_df, player_names, pitcher_name_input,
                   pitch_type_input, batter_hand_input, start_date, end_date,
                   player_id, df, summary, pdf, ui, ran, fig, headshot, log>>

\* lines 46-55
FilterRows ==
    /\ pc = "filter"
    /\ df' = FilterAll(df, pitcher_name_input, pitch_type_input, start_date,
                       end_date, batter_hand_input)
    /\ ran' = ran \cup {"filter"}
    /\ pc' = "check"
    /\ UNCHANGED <<players_df, player_names, pitcher_name_input,
                   pitch_type_input, batter_hand_input, start_date, end_date,
                   player_id, summary, pdf, calls, ui, fig, headshot, log>>

\* the bug of a missing st.stop(): the warning is shown and the run goes on
CheckEmptyNoStop ==
    /\ pc = "check"
    /\ ui' = IF df = <<>> THEN Append(ui, "warning") ELSE ui
    /\ pc' = "vaa"
    /\ UNCHANGED <<players_df, player_names, pitcher_name_input,
                   pitch_type_input, batter_hand_input, start_date, end_date,
                   player_id, df, summary, pdf, calls, ran, fig, headshot, log>>

\* the bug of an inverted test: if not df.is_empty()
CheckEmptyInverted ==
    /\ pc = "check"
    /\ IF df # <<>>
       THEN /\ ui' = Append(ui, "warning")
            /\ pc' = "stopped"
       ELSE /\ pc' = "vaa"
            /\ UNCHANGED ui
    /\ UNCHANGED <<players_df, player_names, pitcher_name_input,
                   pitch_type_input, batter_hand_input, start_date, end_date,
                   player_id, df, summary, pdf, calls, ran, fig, headshot, log>>

\* lines 58-61
CheckEmpty ==
    /\ pc = "check"
    /\ IF df = <<>>
       THEN /\ ui' = Append(ui, "warning")
            /\ pc' = "stopped"
       ELSE /\ pc' = "vaa"
            /\ UNCHANGED ui
    /\ UNCHANGED <<players_df, player_names, pitcher_name_input,
                   pitch_type_input, batter_hand_input, start_date, end_date,
                   player_id, df, summary, pdf, calls, ran, fig, headshot, log>>

\* lines 63-76
ComputeVaa ==
    /\ pc = "vaa"
    /\ df' = WithVaa(df)
    /\ ran' = ran \cup {"vaa"}
    /\ pc' = "summary"
    /\ UNCHANGED <<players_df, player_names, pitcher_name_input,
                   pitch_type_input, batter_hand_input, start_date, end_date,
                   player_id, summary, pdf, calls, ui, fig, headshot, log>>

\* lines 78-85
SummaryStats ==
    /\ pc = "summary"
    /\ summary' = Summarise(df)
    /\ ran' = ran \cup {"summary"}
    /\ pc' = "kde_data"
    /\ UNCHANGED <<players_df, player_names, pitcher_name_input,
                   pitch_type_input, batter_hand_input, start_date, end_date,
                   player_id, df, pdf, calls, ui, fig, headshot, log>>

\* lines 101-102
PrepareKde ==
    /\ pc = "kde_data"
    /\ pdf' = LocationRows(df)
    /\ ran' = ran \cup {"kde_data"}
    /\ pc' = "plot"
    /\ UNCHANGED <<players_df, player_names, pitcher_name_input,
                   pitch_type_input, batter_hand_input, start_date, end_date,
                   player_id, df, summary, calls, ui, fig, headshot, log>>

\* lines 104-134: sns.kdeplot over pdf, the strike zone, the summary text
Plot ==
    /\ pc = "plot"
    /\ fig' = [fig EXCEPT !.kde = pdf, !.drawn = TRUE, !.zone = TRUE,
                          !.text = TRUE]
    /\ ran' = ran \cup {"plot"}
    /\ pc' = "headshot"
    /\ UNCHANGED <<players_df, player_names, pitcher_name_input,
                   pitch_type_input, batter_hand_input, start_date, end_date,
                   player_id, df, summary, pdf, calls, ui, headshot, log>>

\* line 90: unique() keeps no order, so [0] is any of the ids present
HeadshotLookup ==
    /\ pc = "headshot"
    /\ \E id \in {df[i].pitcher_id : i \in 1..Len(df)} :
          headshot' = [headshot EXCEPT !.pitcher_id = id]
    /\ ran' = ran \cup {"headshot"}
    /\ pc' = "hs_get"
    /\ UNCHANGED <<players_df, player_names, pitcher_name_input,
                   pitch_type_input, batter_hand_input, start_date, end_date,
                   player_id, df, summary, pdf, calls, ui, fig, log>>

\* lines 91-92: the image endpoint answers with some status
HeadshotGet ==
    /\ pc = "hs_get"
    /\ \E status \in {200, 404, 500} :
          headshot' = [headshot EXCEPT !.status = status]
    /\ pc' = "hs_status"
    /\ UNCHANGED <<players_df, player_names, pitcher_name_input,
                   pitch_type_input, batter_hand_input, start_date, end_date,
                   player_id, df, summary, pdf, calls, ui, ran, fig, log>>

\* lines 93, 98-99: raise_for_status raises on 4xx and 5xx
HeadshotStatus ==
    /\ pc = "hs_status"
    /\ IF headshot.status >= 400
       THEN /\ log' = Append(log, "Headshot load failed")
            /\ pc' = "finalize"
       ELSE /\ pc' = "hs_decode"
            /\ UNCHANGED log
    /\ UNCHANGED <<players_df, player_names, pitcher_name_input,
                   pitch_type_input, batter_hand_input, start_date, end_date,
                   player_id, df, summary, pdf, calls, ui, ran, fig, headshot>>

\* line 94
HeadshotDecode ==
    /\ pc = "hs_decode"
    /\ pc' = "hs_add"
    /\ UNCHANGED <<players_df, player_names, pitcher_name_input,
                   pitch_type_input, batter_hand_input, start_date, end_date,
                   player_id, df, summary, pdf, calls, ui, ran, fig, headshot,
                   log>>

\* lines 95-97
HeadshotAdd ==
    /\ pc = "hs_add"
    /\ fig' = [fig EXCEPT !.image = headshot.pitcher_id]
    /\ pc' = "finalize"
    /\ UNCHANGED <<players_df, player_names, pitcher_name_input,
                   pitch_type_input, batter_hand_input, start_date, end_date,
                   player_id, df, summary, pdf, calls, ui, ran, headshot, log>>

\* the bug of a missing try / except: the exception ends the run
HeadshotRaises ==
    /\ pc \in {"headshot", "hs_get", "hs_decode", "hs_add"}
    /\ ran' = ran \cup {"headshot"}
    /\ pc' = "crashed"
    /\ UNCHANGED <<players_df, player_names, pitcher_name_input,
                   pitch_type_input, batter_hand_input, start_date, end_date,
                   player_id, df, summary, pdf, calls, ui, fig, headshot, log>>

\* lines 89-99: the statement at hand raises (no pitcher_id column, no
\* network, a timeout, bytes that are no image, ...); except Exception
\* catches it and prints
HeadshotFails ==
    /\ pc \in {"headshot", "hs_get", "hs_decode", "hs_add"}
    /\ log' = Append(log, "Headshot load failed")
    /\ ran' = ran \cup {"headshot"}
    /\ pc' = "finalize"
    /\ UNCHANGED <<players_df, player_names, pitcher_name_input,
                   pitch_type_input, batter_hand_input, start_date, end_date,
                   player_id, df, summary, pdf, calls, ui, fig, headshot>>

\* lines 139-146
Finalize ==
    /\ pc = "finalize"
    /\ fig' = [fig EXCEPT !.limits = TRUE, !.grid = TRUE,
                          !.title = <<pitcher_name_input, pitch_type_input>>]
    /\ ui' = Append(ui, "pyplot")
    /\ ran' = ran \cup {"finalize"}
    /\ pc' = "done"
    /\ UNCHANGED <<players_df, player_names, pitcher_name_input,
                   pitch_type_input, batter_hand_input, start_date, end_date,
                   player_id, df, summary, pdf, calls, headshot, log>>

----------------------------------------------------------------------------
(* What the collaborators answer and what the user selects *)

\* two names, as text
Al == <<65, 108>>
Bo == <<66, 111>>

Date(y, m, d) == [y |-> y, m |-> m, d |-> d]
D1 == Date(2025, 2, 10)
D2 == Date(2025, 9, 30)
D3 == Date(2025, 10, 2)
D4 == Date(2025, 12, 31)

\* the provider's game_date text of a calendar date: ISO YYYY-MM-DD
Iso(d) ==
    << 48 + (d.y \div 1000), 48 + ((d.y \div 100) % 10),
       48 + ((d.y \div 10) % 10), 48 + (d.y % 10), 45,
       48 + (d.m \div 10), 48 + (d.m % 10), 45,
       48 + (d.d \div 10), 48 + (d.d % 10) >>

\* a four-seam fastball of Al's to a left-handed batter on D2; the
\* kinematics are those of the worked example: vy0 = -130, ay = 20,
\* vz0 = -5, az = -16
Pitch ==
    [pitcher_name |-> Al, pitcher_id |-> 1, pitch_type |-> "FF",
     game_date |-> Iso(D2), batter_hand |-> "L",
     px |-> Num(50), pz |-> Num(250),
     vy0 |-> Whole(-130), ay |-> Whole(20), vz0 |-> Whole(-5),
     az |-> Whole(-16),
     start_speed |-> Num(9520), ivb |-> Num(1650), hb |-> Num(-820),
     extension |-> Num(640)]

\* rows that differ in what the filters read
FilterPitches ==
    { Pitch,
      [Pitch EXCEPT !.game_date = Iso(D1)],
      [Pitch EXCEPT !.game_date = Iso(D3), !.batter_hand = "R"],
      [Pitch EXCEPT !.game_date = Iso(D4)],
      [Pitch EXCEPT !.batter_hand = "R"],
      [Pitch EXCEPT !.batter_hand = NULL],
      [Pitch EXCEPT !.pitcher_name = Bo, !.pitcher_id = 2],
      [Pitch EXCEPT !.pitch_type = "SL"] }

\* rows that pass the filters and differ in what the derivation, the
\* summary and the plot read
DerivePitches ==
    { Pitch,
      \* a second ordinary pitch
      [Pitch EXCEPT !.vy0 = Whole(-120), !.ay = Whole(25), !.vz0 = Whole(-3),
                    !.az = Whole(-20), !.start_speed = Num(8815),
                    !.px = Num(-30)],
      \* vy0^2 < 2 ay (y0 - yf): a negative radicand
      [Pitch EXCEPT !.vy0 = Whole(-10), !.ay = Whole(30)],
      \* no tracking: the kinematics are missing
      [Pitch EXCEPT !.vy0 = Null, !.ay = Null, !.vz0 = Null, !.az = Null],
      \* ay = 0 and vy0 < 0: t = 0 / 0
      [Pitch EXCEPT !.ay = Whole(0)],
      \* no plate location
      [Pitch EXCEPT !.px = Null],
      [Pitch EXCEPT !.pz = Null],
      [Pitch EXCEPT !.px = Null, !.pz = Null, !.vy0 = Whole(-10),
                    !.ay = Whole(30)] }

\* a few rows of each kind, and a second pitcher_id under Al's name
FlowPitches ==
    { Pitch,
      [Pitch EXCEPT !.pitcher_id = 3],
      [Pitch EXCEPT !.pitcher_name = Bo, !.pitcher_id = 2],
      [Pitch EXCEPT !.px = Null, !.batter_hand = "R"] }

\* roster rows: two players share a name
FlowRoster ==
    { [name |-> Al, player_id |-> 1], [name |-> Bo, player_id |-> 2],
      [name |-> Al, player_id |-> 3] }
OneRoster == { [name |-> Al, player_id |-> 1] }

Script(rosterRows, rows, types, hands, starts, ends) ==
    \/ LoadPlayers(rosterRows)
    \/ SelectInputs(types, hands, starts, ends)
    \/ MatchPitcher
    \/ GetPlayerGamesList
    \/ GetData
    \/ GetDataDf(rows)
    \/ ScraperRaises
    \/ FilterRows
    \/ CheckEmpty
    \/ ComputeVaa
    \/ SummaryStats
    \/ PrepareKde
    \/ Plot
    \/ HeadshotLookup
    \/ HeadshotGet
    \/ HeadshotStatus
    \/ HeadshotDecode
    \/ HeadshotAdd
    \/ HeadshotFails
    \/ Finalize

\* the run as a whole: rosters and selections vary
Next == Script(FlowRoster, FlowPitches, {"FF", "CU"}, {"Both", "Left"},
               {D1}, {D4})
Spec == Init /\ [][Next]_vars

\* the filters: rows and criteria vary in what the filters read
NextFilter == Script(OneRoster, FilterPitches, {"FF", "SL"}, Hands,
                     {D1, D2, D3}, {D2, D3, D4})
SpecFilter == Init /\ [][NextFilter]_vars

\* the derivation: rows vary in kinematics and plate location
NextDerive == Script(OneRoster, DerivePitches, {"FF"}, {"Both", "Right"},
                     {D1}, {D4})
SpecDerive == Init /\ [][NextDerive]_vars

----------------------------------------------------------------------------
(* Properties *)

GameFetches == {"get_player_games_list", "get_data", "get_data_df"}
CalledOps == {calls[i].op : i \in 1..Len(calls)}

\* the selections have been made (a run that ended in get_players made none)
Selected ==
    /\ pc \notin {"start", "inputs"}
    /\ ~(pc = "crashed" /\ calls[Len(calls)].op = "get_players")
NoRosterRowMatches ==
    \A i \in 1..Len(players_df) : players_df[i].name # pitcher_name_input

\* C1: in a run whose selected pitcher name equals the name of no roster
\* row, the script shows the error and stops right after the lookup, and
\* get_player_games_list, get_data and get_data_df are never called.
C1_UnknownPitcherHaltsBeforeFetch ==
    (Selected /\ NoRosterRowMatches) =>
        /\ CalledOps \cap GameFetches = {}
        /\ pc \in {"match", "stopped"}
        /\ pc = "stopped" => ui = <<"error">>
        /\ pc = "match" => ENABLED MatchPitcher

C1_Witness ==
    /\ pc = "stopped"
    /\ NoRosterRowMatches
    /\ ui = <<"error">>
    /\ calls = <<[op |-> "get_players", arg |-> NoId]>>

AfterCheckSteps == {"vaa", "summary", "kde_data", "plot", "headshot", "finalize"}

\* C2: in a run where no row survives the filters, the script shows the
\* warning and stops: the derivation, the summary, the headshot and the
\* plot are never executed and nothing is rendered.
C2_EmptyResultHaltsBeforeDerivation ==
    ("filter" \in ran /\ df = <<>>) =>
        /\ ran \cap AfterCheckSteps = {}
        /\ fig = NoFig
        /\ summary = NoSummary
        /\ pc \in {"check", "stopped"}
        /\ pc = "stopped" => ui = <<"warning">>
        /\ pc = "check" => ENABLED CheckEmpty

C2_Witness ==
    /\ pc = "stopped"
    /\ "filter" \in ran
    /\ df = <<>>
    /\ ui = <<"warning">>
    /\ Len(calls) = 4

\* vy0^2 - 2 ay (y0 - yf) < 0 in exact arithmetic: 6 vy0^2 < 583 ay, the
\* columns being in hundredths
NegativeRadicand(r) ==
    /\ r.vy0.k = "num"
    /\ r.ay.k = "num"
    /\ 6 * r.vy0.v * r.vy0.v < (12 * y0 - 17) * r.ay.v * Scale
DefinedVaa(d) == SelectSeq(Column(d, "vaa_deg"), LAMBDA x : x.k = "num")
RECURSIVE Total(_)
Total(s) == IF s = <<>> THEN 0 ELSE Head(s).v + Total(Tail(s))
\* the mean of the defined vaa_deg values, to one decimal
MeanOfDefinedVaa(d) ==
    Round1(Num(RDiv(Total(DefinedVaa(d)), Len(DefinedVaa(d)))))
SomeVaaIsNaN(d) == \E i \in 1..Len(d) : d[i].vaa_deg.k = "nan"

ParseDate(t) ==
    [y |-> (t[1] - 48) * 1000 + (t[2] - 48) * 100 + (t[3] - 48) * 10 + (t[4] - 48),
     m |-> (t[6] - 48) * 10 + (t[7] - 48),
     d |-> (t[9] - 48) * 10 + (t[10] - 48)]
\* a is on or before b in the calendar
CalLeq(a, b) ==
    \/ a.y < b.y
    \/ a.y = b.y /\ a.m < b.m
    \/ a.y = b.y /\ a.m = b.m /\ a.d <= b.d
InCalendarRange(r) ==
    /\ CalLeq(start_date, ParseDate(r.game_date))
    /\ CalLeq(ParseDate(r.game_date), end_date)
PassesHand(r) ==
    CASE batter_hand_input = "Left" -> r.batter_hand = "L"
      [] batter_hand_input = "Right" -> r.batter_hand = "R"
      [] OTHER -> TRUE

\* C4: the date filter is inclusive at both ends: a row that passes the
\* other filters is retained by the filtering step if and only if
\* start_date <= game_date <= end_date in calendar order.
C4_DateFilterInclusive ==
    [][pc = "filter" =>
        \A i \in 1..Len(df) :
            (/\ df[i].pitcher_name = pitcher_name_input
             /\ df[i].pitch_type = pitch_type_input
             /\ PassesHand(df[i]))
            => ((df[i] \in Range(df')) <=> InCalendarRange(df[i]))]_vars

C4_Witness ==
    /\ pc = "check"
    /\ start_date # end_date
    /\ \E i \in 1..Len(df) : ParseDate(df[i].game_date) = start_date
    /\ \E i \in 1..Len(df) : ParseDate(df[i].game_date) = end_date

\* C5: under "Both" the filtered row-set is exactly the input rows that
\* satisfy the name, type and date predicates, whatever their batter_hand;
\* under "Left" / "Right" it is those rows with batter_hand "L" / "R".
C5_HandednessFilter ==
    [][pc = "filter" =>
        df' = SelectSeq(df, LAMBDA r :
                  /\ r.pitcher_name = pitcher_name_input
                  /\ r.pitch_type = pitch_type_input
                  /\ InCalendarRange(r)
                  /\ (batter_hand_input = "Left" => r.batter_hand = "L")
                  /\ (batter_hand_input = "Right" => r.batter_hand = "R"))]_vars

C5_Witness ==
    /\ pc = "check"
    /\ batter_hand_input = "Both"
    /\ \E i \in 1..Len(df) : df[i].batter_hand = NULL
    /\ \E i \in 1..Len(df) : df[i].batter_hand = "L"

\* C6: a failure inside the headshot step is caught and logged: the run
\* goes on to set the limits, title and grid and to render the plot, no
\* image is on the axes, and the run does not end crashed or stopped.
C6_HeadshotFailureIsBestEffort ==
    /\ "headshot" \in ran =>
          pc \in {"hs_get", "hs_status", "hs_decode", "hs_add", "finalize", "done"}
    /\ log # <<>> =>
          /\ log = <<"Headshot load failed">>
          /\ fig.image = NoId
          /\ pc \in {"finalize", "done"}
          /\ pc = "finalize" => ENABLED Finalize
          /\ pc = "done" =>
                /\ fig.limits /\ fig.grid /\ fig.drawn
                /\ fig.title = <<pitcher_name_input, pitch_type_input>>
                /\ ui = <<"pyplot">>

C6_Witness ==
    /\ pc = "done"
    /\ log = <<"Headshot load failed">>
    /\ headshot.status = 200
    /\ fig.image = NoId
    /\ ui = <<"pyplot">>

\* C7: filtering is idempotent: applying the four filters to the filtered
\* row-set gives the filtered row-set.
C7_FilterIdempotent ==
    pc = "check" =>
        FilterAll(df, pitcher_name_input, pitch_type_input, start_date,
                  end_date, batter_hand_input) = df

C7_Witness ==
    /\ pc = "check"
    /\ Len(df) >= 2
    /\ df[1] # df[2]

RECURSIVE DefinedLocations(_)
\* the (px, pz) pairs of the rows in which both are defined, in row order
DefinedLocations(d) ==
    IF d = <<>> THEN <<>>
    ELSE IF Head(d).px.k = "num" /\ Head(d).pz.k = "num"
         THEN <<[px |-> Head(d).px, pz |-> Head(d).pz]>> \o DefinedLocations(Tail(d))
         ELSE DefinedLocations(Tail(d))

\* C8: the rows handed to the density plot are exactly the (px, pz) pairs
\* of the filtered rows with both px and pz defined; no other column, an
\* undefined vaa_deg included, drops a row.
C8_PlotRowsAreDefinedLocations ==
    "kde_data" \in ran => pdf = DefinedLocations(df)

C8_Witness ==
    /\ "kde_data" \in ran
    /\ \E i \in 1..Len(df) : df[i].px = Null
    /\ \E i \in 1..Len(df) :
          df[i].vaa_deg = NaN /\ df[i].px.k = "num" /\ df[i].pz.k = "num"
    /\ Len(pdf) = 1

CallOrder ==
    <<"get_players", "get_player_games_list", "get_data", "get_data_df">>

\* C9: each scraper operation is called at most once and in the order
\* get_players, get_player_games_list, get_data, get_data_df, and
\* get_player_games_list gets the player_id of a roster row whose name is
\* the selected pitcher name.
C9_FetchOnceInOrder ==
    /\ Len(calls) <= Len(CallOrder)
    /\ \A i \in 1..Len(calls) : calls[i].op = CallOrder[i]
    /\ Len(calls) >= 2 =>
          \E i \in 1..Len(players_df) :
              /\ players_df[i].name = pitcher_name_input
              /\ players_df[i].player_id = calls[2].arg

C9_Witness ==
    /\ pc = "done"
    /\ Len(calls) = 4
    /\ calls[2].arg = 3
    /\ Len(players_df) = 2

\* C10 as stated: at the density-plot step pdf holds at least one row.
C10_Original_PlotRowsNonEmpty ==
    pc = "plot" => Len(pdf) >= 1

\* C10 amended: at the density-plot step the filtered row-set df holds at
\* least one row; pdf holds a row exactly when some filtered row has both
\* px and pz, so it is empty when every filtered row lacks a location.
C10_PlotReachedOnlyWithFilteredRows ==
    pc = "plot" =>
        /\ Len(df) >= 1
        /\ Len(pdf) <= Len(df)
        /\ pdf # <<>> <=>
              \E i \in 1..Len(df) : df[i].px.k = "num" /\ df[i].pz.k = "num"

C10_Witness ==
    /\ pc = "plot"
    /\ df # <<>>
    /\ pdf = <<>>

====
